---- MODULE Spec2Model ----
(***************************************************************************)
(* Model of the WhatsApp ban-check endpoint (api/check-ban.js): the        *)
(* in-memory rate limiter, the number normalizer, the probe with its       *)
(* deadline and retries, the response classifier and the request handler.  *)
(*                                                                         *)
(* Strings are modelled as sequences of one-character strings, so that     *)
(* trimming, slicing, lower-casing and regular-expression tests are        *)
(* computed the way the JavaScript source computes them.                   *)
(***************************************************************************)
EXTENDS Integers, Sequences, FiniteSets, TLC

VARIABLES
    clock,              \* Date.now(): wall clock in milliseconds
    rateMap,            \* the Map ip -> {count, windowStart}; DOMAIN = keys present
    DEFAULT_RATE_LIMIT, \* parseInt(RATE_LIMIT_PER_MIN || "30"), read at load
    MAX_RETRIES,        \* parseInt(MAX_RETRIES || "2"), read at load
    PROXIES,            \* process.env.PROXIES split into lines, read per request
    EXPOSE_RAW,         \* process.env.EXPOSE_RAW, read per request
    inv,                \* per handler invocation: its position and locals
    simple,             \* the invocation of the handler of src/api/check-ban.js
    calls,              \* observation: per key, the calls made to allowedByRateLimit:
                        \* the time, the value returned, the record's windowStart
    nInput, nResult,    \* normalizeNumber: the argument and the value returned
    cStatus, cBody, cResult  \* classification: resp.status, text, value returned

vars == <<clock, rateMap, DEFAULT_RATE_LIMIT, MAX_RETRIES, PROXIES, EXPOSE_RAW,
          inv, simple, calls,
          nInput, nResult, cStatus, cBody, cResult>>

-----------------------------------------------------------------------------
(* Strings *)

Digits == {"0", "1", "2", "3", "4", "5", "6", "7", "8", "9"}

\* the characters String.prototype.trim removes (those the inputs use)
WhiteSpace == {" ", "\n", "\t"}

IsDigits(s) == \A i \in 1..Len(s) : s[i] \in Digits

\* s.slice(n): the characters after the first n
Slice(s, n) == SubSeq(s, n + 1, Len(s))

\* s.slice(0, n)
Prefix(s, n) == SubSeq(s, 1, IF n < Len(s) THEN n ELSE Len(s))

RECURSIVE TrimStart(_)
TrimStart(s) ==
    IF s # <<>> /\ s[1] \in WhiteSpace THEN TrimStart(Tail(s)) ELSE s

RECURSIVE TrimEnd(_)
TrimEnd(s) ==
    IF s # <<>> /\ s[Len(s)] \in WhiteSpace
    THEN TrimEnd(SubSeq(s, 1, Len(s) - 1)) ELSE s

\* String.prototype.trim
Trim(s) == TrimEnd(TrimStart(s))

\* cc.replace(/^0+/, "")
RECURSIVE StripLeadingZeros(_)
StripLeadingZeros(s) ==
    IF s # <<>> /\ s[1] = "0" THEN StripLeadingZeros(Tail(s)) ELSE s

\* n copies of the character c
RECURSIVE Repeat(_, _)
Repeat(c, n) == IF n <= 0 THEN <<>> ELSE <<c>> \o Repeat(c, n - 1)

\* all sequences over alphabet A of length at most n
RECURSIVE SeqsUpTo(_, _)
SeqsUpTo(A, n) ==
    IF n = 0 THEN {<<>>}
    ELSE LET shorter == SeqsUpTo(A, n - 1)
         IN  shorter \cup {<<a>> \o s : a \in A, s \in {t \in shorter : Len(t) = n - 1}}

-----------------------------------------------------------------------------
(* normalizeNumber *)

MIN_DIGITS == 6
MAX_DIGITS == 15
CC_SPLIT_LEN == 8

\* the value null of normalizeNumber
Null == [ok |-> FALSE, cc |-> <<>>, in |-> <<>>]

\* /^\d{6,}$/: the test without its upper length bound
DigitsPatternNoMax(plus) ==
    IsDigits(plus) /\ Len(plus) >= MIN_DIGITS

\* /^\d{6,15}$/.test(plus)
DigitsPattern(plus) ==
    IsDigits(plus) /\ Len(plus) >= MIN_DIGITS /\ Len(plus) <= MAX_DIGITS

normalizeNumber(input) ==
    IF input = <<>> THEN Null
    ELSE LET s    == Trim(input)
             plus == IF s # <<>> /\ s[1] = "+" THEN Slice(s, 1) ELSE s
         IN  IF ~DigitsPattern(plus) THEN Null
             ELSE LET cc0    == IF Len(plus) < CC_SPLIT_LEN THEN Prefix(plus, 1)
                                ELSE Prefix(plus, 2)
                      cc     == IF StripLeadingZeros(cc0) # <<>>
                                THEN StripLeadingZeros(cc0) ELSE Prefix(plus, 1)
                      inPart == Slice(plus, Len(cc))
                  IN  IF inPart = <<>> THEN Null
                      ELSE [ok |-> TRUE, cc |-> cc, in |-> inPart]

-----------------------------------------------------------------------------
(* The rate limiter *)

windowLen == 60

MS_PER_SECOND == 1000

\* Math.floor(Date.now() / 1000)
nowUnix(ms) == ms \div MS_PER_SECOND

\* a map holding nothing but k's record
MapSetAlone(m, k, v) == [x \in {k} |-> v]

\* rateMap.set(k, v)
MapSet(m, k, v) == [x \in (DOMAIN m) \cup {k} |-> IF x = k THEN v ELSE m[x]]

EmptyMap == [x \in {} |-> [count |-> 0, windowStart |-> 0]]

\* the window test with > in place of >=
WindowOverStrict(rec, cur) == cur - rec.windowStart > windowLen

\* line 44: whether the window of rec has run out at time cur
WindowOver(rec, cur) == cur - rec.windowStart >= windowLen

\* the incremented count of an allowed call is not written back
allowedByRateLimitLost(m, ip, ms, limit) ==
    LET cur   == nowUnix(ms)
        fresh == [count |-> 1, windowStart |-> cur]
    IN  IF ip \notin DOMAIN m
        THEN [allow |-> TRUE, map |-> MapSet(m, ip, fresh)]
        ELSE IF WindowOver(m[ip], cur)
        THEN [allow |-> TRUE, map |-> MapSet(m, ip, fresh)]
        ELSE IF m[ip].count < limit
        THEN [allow |-> TRUE, map |-> m]
        ELSE [allow |-> FALSE, map |-> m]

\* the count test with <= in place of <
allowedByRateLimitOneMore(m, ip, ms, limit) ==
    LET cur   == nowUnix(ms)
        fresh == [count |-> 1, windowStart |-> cur]
    IN  IF ip \notin DOMAIN m
        THEN [allow |-> TRUE, map |-> MapSet(m, ip, fresh)]
        ELSE IF WindowOver(m[ip], cur)
        THEN [allow |-> TRUE, map |-> MapSet(m, ip, fresh)]
        ELSE IF m[ip].count <= limit
        THEN [allow |-> TRUE,
              map |-> MapSet(m, ip, [m[ip] EXCEPT !.count = m[ip].count + 1])]
        ELSE [allow |-> FALSE, map |-> m]

\* allowedByRateLimit(ip) at clock ms, on map m, with limit `limit`:
\* the value returned and the map it leaves
allowedByRateLimit(m, ip, ms, limit) ==
    LET cur   == nowUnix(ms)
        fresh == [count |-> 1, windowStart |-> cur]
    IN  IF ip \notin DOMAIN m
        THEN [allow |-> TRUE, map |-> MapSet(m, ip, fresh)]
        ELSE IF WindowOver(m[ip], cur)
        THEN [allow |-> TRUE, map |-> MapSet(m, ip, fresh)]
        ELSE IF m[ip].count < limit
        THEN [allow |-> TRUE,
              map |-> MapSet(m, ip, [m[ip] EXCEPT !.count = m[ip].count + 1])]
        ELSE [allow |-> FALSE, map |-> m]

-----------------------------------------------------------------------------
(* The classification of a response (doRegisterCheck, after resp.text()) *)

UpperCase == <<"A", "B", "C", "D", "E", "F", "G", "H", "I", "J", "K", "L", "M", "N", "O", "P", "Q", "R", "S", "T", "U", "V", "W", "X", "Y", "Z">>
LowerCase == <<"a", "b", "c", "d", "e", "f", "g", "h", "i", "j", "k", "l", "m", "n", "o", "p", "q", "r", "s", "t", "u", "v", "w", "x", "y", "z">>

\* one character of String.prototype.toLowerCase
LowerChar(c) ==
    IF \E i \in 1..Len(UpperCase) : UpperCase[i] = c
    THEN LowerCase[CHOOSE i \in 1..Len(UpperCase) : UpperCase[i] = c]
    ELSE c

toLowerCase(s) == [i \in 1..Len(s) |-> LowerChar(s[i])]

\* the characters the regular expression `.` does not match
LineTerminators == {"\n", "\r"}

\* pat occurs in text at position i
OccursAt(text, pat, i) ==
    i >= 1 /\ i + Len(pat) - 1 <= Len(text) /\ SubSeq(text, i, i + Len(pat) - 1) = pat

\* /pat/.test(text)
Contains(text, pat) == \E i \in 1..Len(text) : OccursAt(text, pat, i)

\* /a.*b/.test(text)
ContainsDotStar(text, a, b) ==
    \E i \in 1..Len(text) : \E j \in (i + Len(a))..Len(text) :
        /\ OccursAt(text, a, i)
        /\ OccursAt(text, b, j)
        /\ \A k \in (i + Len(a))..(j - 1) : text[k] \notin LineTerminators

PatBanned == <<"b", "a", "n", "n", "e", "d">>
PatBlocked == <<"b", "l", "o", "c", "k", "e", "d">>
PatSuspended == <<"a", "c", "c", "o", "u", "n", "t", " ", "s", "u", "s", "p", "e", "n", "d", "e", "d">>
PatAccountBanned == <<"a", "c", "c", "o", "u", "n", "t", " ", "b", "a", "n", "n", "e", "d">>
PatForbidden == <<"f", "o", "r", "b", "i", "d", "d", "e", "n">>
PatUnauthorized == <<"u", "n", "a", "u", "t", "h", "o", "r", "i", "z", "e", "d">>
PatAuthFailure == <<"a", "u", "t", "h", "_", "f", "a", "i", "l", "u", "r", "e">>
PatAuthFailed == <<"a", "u", "t", "h", "_", "f", "a", "i", "l", "e", "d">>
PatCode == <<"c", "o", "d", "e">>
PatOk == <<"o", "k">>
PatStatus == <<"s", "t", "a", "t", "u", "s">>
PatStatusOk == <<"\"", "s", "t", "a", "t", "u", "s", "\"", ":", "\"", "o", "k", "\"">>
PatCodeZero == <<"\"", "c", "o", "d", "e", "\"", ":", "\"", "0", "\"">>

\* sample pieces of upstream bodies
FrBanned == <<"B", "a", "n", "n", "e", "d">>
FrBlocked == <<"b", "l", "o", "c", "k", "e", "d">>
FrSuspended == <<"a", "c", "c", "o", "u", "n", "t", " ", "s", "u", "s", "p", "e", "n", "d", "e", "d">>
FrAccountBanned == <<"a", "c", "c", "o", "u", "n", "t", " ", "b", "a", "n", "n", "e", "d">>
FrForbidden == <<"F", "O", "R", "B", "I", "D", "D", "E", "N">>
FrUnauthorized == <<"U", "n", "a", "u", "t", "h", "o", "r", "i", "z", "e", "d">>
FrAuthFailure == <<"a", "u", "t", "h", "_", "f", "a", "i", "l", "u", "r", "e">>
FrAuthFailed == <<"A", "U", "T", "H", "_", "F", "A", "I", "L", "E", "D">>
FrCode == <<"c", "o", "d", "e">>
FrOk == <<"O", "K">>
FrStatus == <<"s", "t", "a", "t", "u", "s">>
FrStatusOk == <<"\"", "s", "t", "a", "t", "u", "s", "\"", ":", "\"", "o", "k", "\"">>
FrCodeZero == <<"\"", "c", "o", "d", "e", "\"", ":", "\"", "0", "\"">>
FrNewline == <<"\n">>
FrOther == <<"f", "a", "i", "l">>

Fragments == {FrBanned, FrBlocked, FrSuspended, FrAccountBanned, FrForbidden, FrUnauthorized, FrAuthFailure, FrAuthFailed, FrCode, FrOk, FrStatus, FrStatusOk, FrCodeZero, FrNewline, FrOther}


\* /banned|blocked|account suspended|account banned|forbidden/.test(low)
BanKeyword(low) ==
    \/ Contains(low, PatBanned)
    \/ Contains(low, PatBlocked)
    \/ Contains(low, PatSuspended)
    \/ Contains(low, PatAccountBanned)
    \/ Contains(low, PatForbidden)

\* /code.*ok|status.*ok|\"status\"\:\"ok\"|\"code\"\:\"0\"/.test(low)
SuccessMarker(low) ==
    \/ ContainsDotStar(low, PatCode, PatOk)
    \/ ContainsDotStar(low, PatStatus, PatOk)
    \/ Contains(low, PatStatusOk)
    \/ Contains(low, PatCodeZero)

\* /forbidden|unauthorized|auth_failure|auth_failed|banned/.test(low)
AuthKeyword(low) ==
    \/ Contains(low, PatForbidden)
    \/ Contains(low, PatUnauthorized)
    \/ Contains(low, PatAuthFailure)
    \/ Contains(low, PatAuthFailed)
    \/ Contains(low, PatBanned)

\* the 4xx rule tried before the success markers
classifySwapped(status, text) ==
    LET low == toLowerCase(text)
    IN  IF BanKeyword(low) THEN TRUE
        ELSE IF status >= 400 /\ status < 500 /\ AuthKeyword(low) THEN TRUE
        ELSE IF SuccessMarker(low) THEN FALSE
        ELSE FALSE

\* the value of `banned` doRegisterCheck returns for resp.status and text
classify(status, text) ==
    LET low == toLowerCase(text)
    IN  IF BanKeyword(low) THEN TRUE
        ELSE IF SuccessMarker(low) THEN FALSE
        ELSE IF status >= 400 /\ status < 500 /\ AuthKeyword(low) THEN TRUE
        ELSE FALSE


-----------------------------------------------------------------------------
(* The handler and the probe (doRegisterCheck) *)

Procs == {"p1", "p2"}

IPs == {"10.0.0.1", "10.0.0.2"}

Methods == {"GET", "POST"}

\* the shapes of req.body: a parsed object; not an object, on a request that
\* has no text() method; not an object, on a request whose text() resolves
\* to the JSON text of an object, resolves to text that is not JSON, rejects
BodyShapes == {"object", "no_text", "text_json", "text_invalid", "text_rejects"}

\* values of body.number and body.phone (<<>>: absent or empty)
NumValid == <<"+", "6", "2", "8", "1", "2", "3", "4", "5", "6", "7", "8", "9">>
NumWord == <<"a", "b", "c">>
NumBlank == <<" ">>
SampleNumbers == {<<>>, NumValid, NumWord, NumBlank}
SampleBodies == {[number |-> n, phone |-> <<>>] : n \in SampleNumbers}
                    \cup {[number |-> <<>>, phone |-> NumValid]}

\* what the upstream may answer
SampleStatuses == {200, 403, 500}
SampleTexts == {FrBanned, FrUnauthorized, FrOther}

NoProxy == "undefined"
GoodProxy == "http://10.1.1.1:8000"
BadProxy == "::not a url::"

\* new HttpsProxyAgent(proxyUrl) throws
AgentSetupThrows(url) == url = BadProxy

\* the value undefined where a string is expected
Undefined == <<"undefined">>

NoResult == [kind |-> "none", banned |-> FALSE, raw |-> Undefined, status |-> 0]

NoResponse ==
    [code |-> 0, error |-> "", number |-> <<>>, normalized |-> Null,
     banned |-> FALSE, statusCode |-> 0, raw |-> Undefined, proxy |-> ""]

\* no identity drawn yet
NoIdentity == [ua |-> 0, mcc |-> "", mnc |-> "", r |-> 0]

IdleInv ==
    [pc |-> "idle", method |-> "", ip |-> "", shape |-> "",
     body |-> [number |-> <<>>, phone |-> <<>>],
     gate |-> "none",        \* what allowedByRateLimit returned
     examined |-> FALSE,     \* body.number has been read
     number |-> <<>>, normalized |-> Null, proxyToUse |-> NoProxy,
     retries |-> 0,          \* the parameter of the current doRegisterCheck
     agent |-> FALSE,        \* fetchOptions.agent is set
     timer |-> FALSE,        \* the 12 s timeout is pending
     attempts |-> 0,         \* fetch calls made
     failures |-> 0,         \* times the catch block was entered
     respStatus |-> 0,       \* resp.status of the response being read
     delivered |-> 0,        \* the attempt whose body was read in full
     identity |-> NoIdentity, \* ua, mcc, mnc and r of the current doRegisterCheck
     draws |-> 0,            \* times an identity was drawn
     backoffMs |-> 0,        \* the length of the backoff wait pending
     backoffs |-> 0,         \* backoff waits begun
     text |-> Undefined,     \* the body read
     result |-> NoResult,    \* what doRegisterCheck returned
     thrown |-> FALSE,       \* the handler's promise rejected
     response |-> NoResponse]

errorResponse(code, error) == [NoResponse EXCEPT !.code = code, !.error = error]

\* pickRandom(arr): the values it may return
pickRandom(arr) == {arr[i] : i \in 1..Len(arr)}

\* lines 14-20, 90: the length of UA_LIST and the size of the range of r
UA_COUNT == 4
R_RANGE == 1000000

MCC_OPTIONS == <<"510", "440", "510", "520", "310", "404", "505">>
MNC_OPTIONS == <<"00", "01", "10", "20", "70", "01">>

\* lines 95-97, 90: what an attempt may draw: the index of the user agent,
\* the mcc, the mnc and the field r
AllIdentities ==
    [ua : 1..UA_COUNT, mcc : pickRandom(MCC_OPTIONS), mnc : pickRandom(MNC_OPTIONS),
     r : 0..(R_RANGE - 1)]

\* the draws followed: the first and the last value of every list
Identities ==
    {[ua |-> 1, mcc |-> MCC_OPTIONS[1], mnc |-> MNC_OPTIONS[1], r |-> 0],
     [ua |-> UA_COUNT, mcc |-> MCC_OPTIONS[Len(MCC_OPTIONS)],
      mnc |-> MNC_OPTIONS[Len(MNC_OPTIONS)], r |-> R_RANGE - 1]}

\* lines 199-206: the proxy choices of one request
proxyChoices(proxies) == IF Len(proxies) > 0 THEN pickRandom(proxies) ELSE {NoProxy}

\* body.number || body.phone || ""
bodyNumber(body) == IF body.number # <<>> THEN body.number ELSE body.phone

\* lines 187-196: the number read from the body, trimmed, checked, normalized
numberStage(body) ==
    LET number == Trim(bodyNumber(body))
    IN  IF number = <<>>
        THEN [code |-> 400, error |-> "number_required", number |-> number,
              normalized |-> Null]
        ELSE IF ~normalizeNumber(number).ok
        THEN [code |-> 400, error |-> "invalid_number", number |-> number,
              normalized |-> Null]
        ELSE [code |-> 0, error |-> "", number |-> number,
              normalized |-> normalizeNumber(number)]

entryOutcome(next, code, error, map, gate, examined, number, normalized) ==
    [next |-> next, code |-> code, error |-> error, map |-> map, gate |-> gate,
     examined |-> examined, number |-> number, normalized |-> normalized]

\* the handler checking the number before the rate-limit gate
handlerEntryNumberFirst(req, m, ms, limit) ==
    IF req.method # "POST"
    THEN entryOutcome("respond", 405, "Method not allowed", m, "none", FALSE, <<>>, Null)
    ELSE IF req.shape = "object" /\ numberStage(req.body).code # 0
    THEN LET n == numberStage(req.body)
         IN  entryOutcome("respond", n.code, n.error, m, "none", TRUE, n.number, Null)
    ELSE LET g == allowedByRateLimit(m, req.ip, ms, limit)
         IN  IF ~g.allow
             THEN entryOutcome("respond", 429, "rate_limited", g.map, "denied",
                               req.shape = "object", <<>>, Null)
             ELSE IF req.shape = "no_text"
             THEN entryOutcome("throw", 0, "", g.map, "allowed", FALSE, <<>>, Null)
             ELSE IF req.shape # "object"
             THEN entryOutcome("parse", 0, "", g.map, "allowed", FALSE, <<>>, Null)
             ELSE LET n == numberStage(req.body)
                  IN  entryOutcome("probe", 0, "", g.map, "allowed", TRUE,
                                   n.number, n.normalized)

\* lines 176-196: the handler from its start to its first suspension
handlerEntry(req, m, ms, limit) ==
    IF req.method # "POST"
    THEN entryOutcome("respond", 405, "Method not allowed", m, "none", FALSE, <<>>, Null)
    ELSE LET g == allowedByRateLimit(m, req.ip, ms, limit)
         IN  IF ~g.allow
             THEN entryOutcome("respond", 429, "rate_limited", g.map, "denied",
                               FALSE, <<>>, Null)
             ELSE IF req.shape = "no_text"
             THEN entryOutcome("throw", 0, "", g.map, "allowed", FALSE, <<>>, Null)
             ELSE IF req.shape # "object"
             THEN entryOutcome("parse", 0, "", g.map, "allowed", FALSE, <<>>, Null)
             ELSE LET n == numberStage(req.body)
                  IN  IF n.code # 0
                      THEN entryOutcome("respond", n.code, n.error, g.map, "allowed",
                                        TRUE, n.number, Null)
                      ELSE entryOutcome("probe", 0, "", g.map, "allowed", TRUE,
                                        n.number, n.normalized)

\* an attempt that draws no identity when it is a retry
startAttemptKeepIdentity(r, retries, id) ==
    [r EXCEPT !.pc = "fetching",
              !.retries = retries,
              !.identity = IF retries = 0 THEN id ELSE @,
              !.backoffMs = 0,
              !.draws = IF retries = 0 THEN @ + 1 ELSE @,
              !.agent = (r.proxyToUse # NoProxy /\ ~AgentSetupThrows(r.proxyToUse)),
              !.timer = TRUE,
              !.attempts = @ + 1]

\* lines 94-135: doRegisterCheck(numberObj, proxyUrl, retries) up to `await fetch`,
\* id the identity it draws
startAttempt(r, retries, id) ==
    [r EXCEPT !.pc = "fetching",
              !.retries = retries,
              !.identity = id,
              !.draws = @ + 1,
              !.backoffMs = 0,
              !.agent = (r.proxyToUse # NoProxy /\ ~AgentSetupThrows(r.proxyToUse)),
              !.timer = TRUE,
              !.attempts = @ + 1]

\* retries <= MAX_RETRIES
canRetryOneMore(retries, max) == retries <= max

\* line 166: retries < MAX_RETRIES
canRetry(retries, max) == retries < max

\* lines 211-213: the handler's answer to a result with an error
respondError(r) ==
    [r EXCEPT !.pc = "done",
              !.identity = NoIdentity,
              !.result = [NoResult EXCEPT !.kind = "network_error"],
              !.response = errorResponse(502, "proxy_or_network_failed")]

\* Math.random() is n / RandomResolution for an n in 0..RandomResolution - 1
RandomResolution == 1000

\* the values of Math.random() followed: the least and the greatest
RandomSamples == {0, RandomResolution - 1}

\* line 168: the base and the jitter range of the backoff wait, in ms
BACKOFF_BASE == 500
BACKOFF_JITTER == 700

\* the wait with a jitter range of 1200 ms
backoffDelayWide(n) == BACKOFF_BASE + (n * (BACKOFF_BASE + BACKOFF_JITTER)) \div RandomResolution

\* line 168: 500 + Math.floor(Math.random() * 700), Math.random() = n / RandomResolution
backoffDelay(n) == BACKOFF_BASE + (n * BACKOFF_JITTER) \div RandomResolution

\* the catch block giving up at the first failure
onFailureNoRetry(r, max, n) ==
    respondError([r EXCEPT !.timer = FALSE, !.failures = @ + 1])

\* lines 163-172: the catch block, and the handler's answer when it returns;
\* n / RandomResolution is what Math.random() gives
onFailure(r, max, n) ==
    LET c == [r EXCEPT !.timer = FALSE, !.failures = @ + 1]
    IN  IF canRetry(r.retries, max)
        THEN [c EXCEPT !.pc = "backoff", !.backoffMs = backoffDelay(n),
                       !.backoffs = @ + 1]
        ELSE respondError(c)

\* the answer carrying the raw body whatever EXPOSE_RAW is
respondResultAlwaysRaw(r, result, exposeRaw) ==
    [r EXCEPT !.pc = "done",
              !.identity = NoIdentity,
              !.result = result,
              !.response = [code |-> 200, error |-> "", number |-> r.number,
                            normalized |-> r.normalized,
                            banned |-> result.banned,
                            statusCode |-> result.status,
                            raw |-> result.raw,
                            proxy |-> IF r.proxyToUse # NoProxy THEN "used" ELSE "none"]]

\* lines 215-223: the handler's answer to a classified result
respondResult(r, result, exposeRaw) ==
    [r EXCEPT !.pc = "done",
              !.identity = NoIdentity,
              !.result = result,
              !.response = [code |-> 200, error |-> "", number |-> r.number,
                            normalized |-> r.normalized,
                            banned |-> result.banned,
                            statusCode |-> result.status,
                            raw |-> IF exposeRaw = "1" THEN result.raw ELSE Undefined,
                            proxy |-> IF r.proxyToUse # NoProxy THEN "used" ELSE "none"]]

\* a response with a 5xx status treated as a failure of the attempt
onResponseRetry5xx(r, text, exposeRaw, max) ==
    LET d == [r EXCEPT !.delivered = r.attempts, !.text = text]
    IN  IF r.respStatus >= 500 THEN onFailure(d, max, 0)
        ELSE respondResult(d, [kind |-> "ok", banned |-> classify(r.respStatus, text),
                               raw |-> text, status |-> r.respStatus], exposeRaw)

\* lines 137-162: the body is read; it is classified and the result returned
onResponse(r, text, exposeRaw, max) ==
    LET d == [r EXCEPT !.delivered = r.attempts, !.text = text]
    IN  respondResult(d, [kind |-> "ok", banned |-> classify(r.respStatus, text),
                          raw |-> text, status |-> r.respStatus], exposeRaw)



-----------------------------------------------------------------------------
(* The handler of src/api/check-ban.js *)

\* req.body: undefined; a string (not parsed); an object whose number is a
\* string or absent; an object whose number is a JSON number
SimpleBodyKinds == {"undefined", "string", "object", "object_numeric"}

NumNumeric == <<"6", "2", "8", "1", "2", "3", "4", "5", "6", "7", "8", "9">>

SimpleNumbers == {<<>>, NumValid, NumWord}

IdleSimple ==
    [pc |-> "idle", method |-> "", kind |-> "", number |-> <<>>,
     sent |-> 0,                          \* fetch calls made
     cc |-> <<>>, in |-> <<>>,            \* the fields cc and in of the form sent
     text |-> Undefined,                  \* the body read
     thrown |-> FALSE,                    \* the handler's promise rejected
     response |-> [code |-> 0, error |-> "", banned |-> FALSE]]

simpleAnswer(r, code, error, banned) ==
    [r EXCEPT !.pc = "done",
              !.response = [code |-> code, error |-> error, banned |-> banned]]

\* lines 2-21: the handler from its start to `await fetch` or to its answer
simpleEntry(method, kind, number) ==
    LET r == [IdleSimple EXCEPT !.method = method, !.kind = kind, !.number = number]
    IN  IF method # "POST" THEN simpleAnswer(r, 405, "Method not allowed", FALSE)
        ELSE IF kind = "undefined" THEN [r EXCEPT !.pc = "done", !.thrown = TRUE]
        ELSE IF kind = "string" \/ number = <<>>
        THEN simpleAnswer(r, 400, "Phone number required", FALSE)
        ELSE IF kind = "object_numeric"
        THEN simpleAnswer(r, 500, "Error checking ban", FALSE)
        ELSE [r EXCEPT !.pc = "fetching", !.sent = @ + 1,
                       !.cc = Prefix(number, 2), !.in = Slice(number, 2)]

\* lines 30-33: the catch block
simpleFailure(r) == simpleAnswer(r, 500, "Error checking ban", FALSE)

\* lines 23-29: /banned/i.test(text)
simpleResult(r, text) ==
    simpleAnswer([r EXCEPT !.text = text], 200, "",
                 Contains(toLowerCase(text), PatBanned))


-----------------------------------------------------------------------------
(* Bounds and the values the environment supplies *)

MaxWindows == 2      \* the clock runs over this many window lengths
MaxLimit == 2        \* RATE_LIMIT_PER_MIN is configured in 1..MaxLimit
MaxRetriesCfg == 2   \* MAX_RETRIES is configured in 0..MaxRetriesCfg
MaxCalls == 5        \* calls made to the limiter on its own
MaxHead == 2         \* free characters at the head of a number input
MaxPad == 16         \* repeated digits after the head of a number input
MaxFragments == 2    \* pieces an upstream body is made of

DefaultRateLimit == 30
DefaultMaxRetries == 2

\* instants of Date.now(): around each multiple of the window length
ClockValues ==
    {t \in {w * windowLen * MS_PER_SECOND + o : w \in 0..MaxWindows, o \in {-1, 0, 999}} :
        t >= 0}

\* the instants of the service specification: the start, and a window
\* length later
WindowStarts == {0, windowLen * MS_PER_SECOND}

ProxyLists == {<<>>, <<GoodProxy, BadProxy>>}

RawFlags == {"undefined", "1", "true"}

HeadAlphabet == {"0", "6", "8", "a", "+", " "}

\* number inputs: optional blank, optional +, a free head, a run of one digit,
\* an optional trailing character
NormInputs ==
    {lead \o plus \o head \o Repeat(d, n) \o trail :
        lead \in {<<>>, <<" ">>}, plus \in {<<>>, <<"+">>},
        head \in SeqsUpTo(HeadAlphabet, MaxHead),
        d \in {"0", "1"}, n \in 0..MaxPad,
        trail \in {<<>>, <<" ">>, <<"\n">>, <<"a">>}}

ClassifyStatuses == {200, 399, 400, 401, 403, 499, 500}

RECURSIVE Concat(_)
Concat(ss) == IF ss = <<>> THEN <<>> ELSE Head(ss) \o Concat(Tail(ss))

ClassifyTexts == {Concat(fs) : fs \in SeqsUpTo(Fragments, MaxFragments)}

-----------------------------------------------------------------------------
(* Initial states *)

IdleService ==
    /\ clock = 0
    /\ rateMap = EmptyMap
    /\ inv = [p \in Procs |-> IdleInv]
    /\ simple = IdleSimple
    /\ calls = [k \in IPs |-> <<>>]

DefaultConfig ==
    /\ DEFAULT_RATE_LIMIT = DefaultRateLimit
    /\ MAX_RETRIES = DefaultMaxRetries
    /\ PROXIES = <<>>
    /\ EXPOSE_RAW = "undefined"

NoNormalize == nInput = <<>> /\ nResult = [done |-> FALSE, value |-> Null]

NoClassify ==
    cStatus = 0 /\ cBody = <<>> /\ cResult = [done |-> FALSE, banned |-> FALSE]

\* the service after the module is loaded
Init ==
    /\ IdleService
    /\ DEFAULT_RATE_LIMIT \in 1..MaxLimit
    /\ MAX_RETRIES \in 0..MaxRetriesCfg
    /\ PROXIES \in ProxyLists
    /\ EXPOSE_RAW \in RawFlags
    /\ NoNormalize
    /\ NoClassify

\* the limiter alone
RateInit ==
    /\ IdleService
    /\ DEFAULT_RATE_LIMIT \in 1..MaxLimit
    /\ MAX_RETRIES = DefaultMaxRetries
    /\ PROXIES = <<>>
    /\ EXPOSE_RAW = "undefined"
    /\ NoNormalize
    /\ NoClassify

\* normalizeNumber on an input
NormInit ==
    /\ IdleService
    /\ DefaultConfig
    /\ nInput \in NormInputs
    /\ nResult = [done |-> FALSE, value |-> Null]
    /\ NoClassify

\* the classification on a status and a body
ClassifyInit ==
    /\ IdleService
    /\ DefaultConfig
    /\ NoNormalize
    /\ cStatus \in ClassifyStatuses
    /\ cBody \in ClassifyTexts
    /\ cResult = [done |-> FALSE, banned |-> FALSE]

-----------------------------------------------------------------------------
(* Actions *)

configVars == <<DEFAULT_RATE_LIMIT, MAX_RETRIES, PROXIES, EXPOSE_RAW>>
pureVars == <<nInput, nResult, cStatus, cBody, cResult>>
mainVars == <<clock, rateMap, inv, calls>>

\* time passes, to one of the instants ts
TickTo(ts) ==
    /\ \E t \in ts : t > clock /\ clock' = t
    /\ UNCHANGED <<rateMap, inv, simple, calls, configVars, pureVars>>

\* allowedByRateLimit(k) is called; the call is noted in calls
RateCall(k) ==
    /\ Cardinality({x \in IPs \X (1..MaxCalls) : x[2] <= Len(calls[x[1]])}) < MaxCalls
    /\ LET g == allowedByRateLimit(rateMap, k, clock, DEFAULT_RATE_LIMIT)
       IN  /\ rateMap' = g.map
           /\ calls' = [calls EXCEPT ![k] =
                           Append(@, [t |-> nowUnix(clock), ok |-> g.allow,
                                      windowStart |-> g.map[k].windowStart])]
    /\ UNCHANGED <<clock, inv, simple, configVars, pureVars>>

\* normalizeNumber(nInput) returns
NormalizeCall ==
    /\ ~nResult.done
    /\ nResult' = [done |-> TRUE, value |-> normalizeNumber(nInput)]
    /\ UNCHANGED <<clock, rateMap, inv, simple, calls, configVars, nInput, cStatus, cBody, cResult>>

\* the classification of (cStatus, cBody) returns
ClassifyCall ==
    /\ ~cResult.done
    /\ cResult' = [done |-> TRUE, banned |-> classify(cStatus, cBody)]
    /\ UNCHANGED <<clock, rateMap, inv, simple, calls, configVars, nInput, nResult, cStatus, cBody>>

\* the invocation after handlerEntry returned e: the records it may be in
afterEntry(r, e, proxies) ==
    LET r0 == [r EXCEPT !.gate = e.gate, !.examined = e.examined,
                        !.number = e.number, !.normalized = e.normalized]
        \* once body.number is read the request body is of no further use
        r1 == IF e.examined THEN [r0 EXCEPT !.shape = "", !.body = IdleInv.body]
              ELSE r0
    IN  IF e.next = "respond"
        THEN {[r1 EXCEPT !.pc = "done", !.response = errorResponse(e.code, e.error)]}
        ELSE IF e.next = "throw"
        THEN {[r1 EXCEPT !.pc = "done", !.thrown = TRUE]}
        ELSE IF e.next = "parse"
        THEN {[r1 EXCEPT !.pc = "parsing"]}
        ELSE {startAttempt([r1 EXCEPT !.proxyToUse = px.proxy], 0, px.id) :
                  px \in [proxy : proxyChoices(proxies), id : Identities]}

\* lines 176-209: the handler called with req runs to its first suspension or
\* to its answer, nothing else running in between
handle(p, req) ==
    LET e == handlerEntry(req, rateMap, clock, DEFAULT_RATE_LIMIT)
        r == IF req.method # "POST" THEN [IdleInv EXCEPT !.method = req.method]
             ELSE [IdleInv EXCEPT !.method = req.method, !.ip = req.ip,
                                  !.shape = req.shape, !.body = req.body]
    IN  /\ rateMap' = e.map
        /\ \E n \in afterEntry(r, e, PROXIES) : inv' = [inv EXCEPT ![p] = n]

\* a request arrives: the handler runs to its first suspension or to its answer
Request(p) ==
    /\ inv[p].pc = "idle"
    /\ \E method \in Methods, ip \in IPs, shape \in BodyShapes, body \in SampleBodies :
         handle(p, [method |-> method, ip |-> ip, shape |-> shape, body |-> body])
    /\ UNCHANGED <<clock, simple, calls, configVars, pureVars>>

\* the requests of the concurrent specification: POST, the body an object or
\* a text the handler has to await
ConcShapes == {"object", "text_json"}

ConcBody == [number |-> NumValid, phone |-> <<>>]

\* the overlapping requests come from one caller
ConcIPs == {"10.0.0.1"}

\* a request arrives while other invocations are suspended; the gate's
\* verdict is logged
ConcRequest(p) ==
    /\ inv[p].pc = "idle"
    /\ Cardinality({x \in IPs \X (1..MaxCalls) : x[2] <= Len(calls[x[1]])}) < MaxCalls
    /\ \E ip \in ConcIPs, shape \in ConcShapes :
         /\ handle(p, [method |-> "POST", ip |-> ip, shape |-> shape, body |-> ConcBody])
         /\ calls' = [calls EXCEPT ![ip] =
                         Append(@, [t |-> nowUnix(clock),
                                    ok |-> inv'[p].gate = "allowed",
                                    windowStart |-> rateMap'[ip].windowStart])]
    /\ UNCHANGED <<clock, simple, configVars, pureVars>>

\* line 186: `await req.text().catch(...)` resumes; JSON.parse, then lines 187-209
ParseDone(p) ==
    /\ inv[p].pc = "parsing"
    /\ LET r == inv[p]
           b == IF r.shape = "text_rejects" THEN [number |-> <<>>, phone |-> <<>>]
                ELSE r.body
           n == numberStage(b)
           e == IF r.shape = "text_invalid"
                THEN entryOutcome("throw", 0, "", rateMap, r.gate, FALSE, <<>>, Null)
                ELSE IF n.code # 0
                THEN entryOutcome("respond", n.code, n.error, rateMap, r.gate, TRUE,
                                  n.number, Null)
                ELSE entryOutcome("probe", 0, "", rateMap, r.gate, TRUE, n.number,
                                  n.normalized)
       IN  \E x \in afterEntry(r, e, PROXIES) : inv' = [inv EXCEPT ![p] = x]
    /\ UNCHANGED <<clock, rateMap, simple, calls, configVars, pureVars>>

\* lines 135-137: fetch resolves with the response's status line and headers
FetchResolve(p) ==
    /\ inv[p].pc = "fetching"
    /\ \E status \in SampleStatuses :
         inv' = [inv EXCEPT ![p] = [@ EXCEPT !.pc = "reading", !.timer = FALSE,
                                              !.respStatus = status]]
    /\ UNCHANGED <<clock, rateMap, simple, calls, configVars, pureVars>>

\* fetch rejects: a connection error
FetchReject(p) ==
    /\ inv[p].pc = "fetching"
    /\ \E n \in RandomSamples :
         inv' = [inv EXCEPT ![p] = onFailure(@, MAX_RETRIES, n)]
    /\ UNCHANGED <<clock, rateMap, simple, calls, configVars, pureVars>>

\* line 131: the timeout fires, controller.abort() rejects what is in flight
Timeout(p) ==
    /\ inv[p].timer
    /\ \E n \in RandomSamples :
         inv' = [inv EXCEPT ![p] = onFailure(@, MAX_RETRIES, n)]
    /\ UNCHANGED <<clock, rateMap, simple, calls, configVars, pureVars>>

\* line 137: resp.text() resolves with the whole body
BodyDone(p) ==
    /\ inv[p].pc = "reading"
    /\ \E text \in SampleTexts :
         inv' = [inv EXCEPT ![p] = onResponse(@, text, EXPOSE_RAW, MAX_RETRIES)]
    /\ UNCHANGED <<clock, rateMap, simple, calls, configVars, pureVars>>

\* line 137: resp.text() rejects: the connection broke while the body was read
BodyError(p) ==
    /\ inv[p].pc = "reading"
    /\ \E n \in RandomSamples :
         inv' = [inv EXCEPT ![p] = onFailure(@, MAX_RETRIES, n)]
    /\ UNCHANGED <<clock, rateMap, simple, calls, configVars, pureVars>>

\* lines 168-169: the backoff timer fires, doRegisterCheck(.., retries + 1) starts
BackoffDone(p) ==
    /\ inv[p].pc = "backoff"
    /\ \E id \in Identities :
         inv' = [inv EXCEPT ![p] = startAttempt(@, @.retries + 1, id)]
    /\ UNCHANGED <<clock, rateMap, simple, calls, configVars, pureVars>>

\* the invocation is over; the next request may come
Finish(p) ==
    /\ inv[p].pc = "done"
    /\ inv' = [inv EXCEPT ![p] = IdleInv]
    /\ UNCHANGED <<clock, rateMap, simple, calls, configVars, pureVars>>

-----------------------------------------------------------------------------
(* Actions of the handler of src/api/check-ban.js *)

SimpleRequest ==
    /\ simple.pc = "idle"
    /\ \E method \in Methods, kind \in SimpleBodyKinds,
          number \in SimpleNumbers \cup {NumNumeric} :
         /\ (kind = "object_numeric") = (number = NumNumeric)
         /\ kind \in {"undefined", "string"} => number = <<>>
         /\ simple' = simpleEntry(method, kind, number)
    /\ UNCHANGED <<mainVars, configVars, pureVars>>

\* line 14: fetch resolves
SimpleFetchResolve ==
    /\ simple.pc = "fetching"
    /\ simple' = [simple EXCEPT !.pc = "reading"]
    /\ UNCHANGED <<mainVars, configVars, pureVars>>

\* line 14: fetch rejects
SimpleFetchReject ==
    /\ simple.pc = "fetching"
    /\ simple' = simpleFailure(simple)
    /\ UNCHANGED <<mainVars, configVars, pureVars>>

\* line 23: response.text() resolves
SimpleBodyDone ==
    /\ simple.pc = "reading"
    /\ \E text \in ClassifyTexts : simple' = simpleResult(simple, text)
    /\ UNCHANGED <<mainVars, configVars, pureVars>>

\* line 23: response.text() rejects
SimpleBodyError ==
    /\ simple.pc = "reading"
    /\ simple' = simpleFailure(simple)
    /\ UNCHANGED <<mainVars, configVars, pureVars>>

SimpleFinish ==
    /\ simple.pc = "done"
    /\ simple' = IdleSimple
    /\ UNCHANGED <<mainVars, configVars, pureVars>>

-----------------------------------------------------------------------------
(* Specifications *)

\* the invocations of the service specification
SpecProcs == {"p1"}

Next ==
    \/ TickTo(WindowStarts)
    \/ \E p \in SpecProcs : Request(p)
    \/ \E p \in SpecProcs : ParseDone(p)
    \/ \E p \in SpecProcs : FetchResolve(p)
    \/ \E p \in SpecProcs : FetchReject(p)
    \/ \E p \in SpecProcs : Timeout(p)
    \/ \E p \in SpecProcs : BodyDone(p)
    \/ \E p \in SpecProcs : BodyError(p)
    \/ \E p \in SpecProcs : BackoffDone(p)
    \/ \E p \in SpecProcs : Finish(p)

Spec == Init /\ [][Next]_vars

RateNext == TickTo(ClockValues) \/ \E k \in IPs : RateCall(k)

RateSpec == RateInit /\ [][RateNext]_vars

NormNext == NormalizeCall

NormSpec == NormInit /\ [][NormNext]_vars

ClassifyNext == ClassifyCall

ClassifySpec == ClassifyInit /\ [][ClassifyNext]_vars

\* invocations of the handler overlapping at its await points
ConcInit ==
    /\ IdleService
    /\ DEFAULT_RATE_LIMIT \in 1..MaxLimit
    /\ MAX_RETRIES = 1
    /\ PROXIES = <<>>
    /\ EXPOSE_RAW \in RawFlags
    /\ NoNormalize /\ NoClassify

ConcNext ==
    \/ TickTo(WindowStarts)
    \/ \E p \in Procs :
         \/ ConcRequest(p)
         \/ ParseDone(p)
         \/ FetchResolve(p)
         \/ FetchReject(p)
         \/ Timeout(p)
         \/ BodyDone(p)
         \/ BodyError(p)
         \/ BackoffDone(p)
         \/ Finish(p)

ConcSpec == ConcInit /\ [][ConcNext]_vars

\* the handler of src/api/check-ban.js on its own
SimpleInit == IdleService /\ DefaultConfig /\ NoNormalize /\ NoClassify

SimpleNext ==
    \/ SimpleRequest
    \/ SimpleFetchResolve
    \/ SimpleFetchReject
    \/ SimpleBodyDone
    \/ SimpleBodyError
    \/ SimpleFinish

SimpleSpec == SimpleInit /\ [][SimpleNext]_vars


-----------------------------------------------------------------------------
(* The rate limiter: C1, C2 (under RateSpec) *)

\* the calls of key k allowed at a time in [from, from + windowLen)
AllowedIn(k, from) ==
    {j \in 1..Len(calls[k]) :
        calls[k][j].ok /\ calls[k][j].t >= from /\ calls[k][j].t < from + windowLen}

\* C1: from no record, the calls of one key made less than 60 s after its
\* first call are allowed exactly when they are among the first L, and the
\* first call made 60 s or more after the first call is allowed again.
C1_WindowQuota ==
    \A k \in IPs :
        LET c == calls[k]
        IN  \A i \in 1..Len(c) :
                /\ c[i].t - c[1].t < windowLen => (c[i].ok <=> i <= DEFAULT_RATE_LIMIT)
                /\ (i > 1 /\ c[i].t - c[1].t >= windowLen /\ c[i - 1].t - c[1].t < windowLen)
                       => c[i].ok

\* a key made L + 1 calls in its first window, the last denied, then a call
\* after the window, allowed
C1_Witness ==
    \E k \in IPs :
        LET c == calls[k]
            L == DEFAULT_RATE_LIMIT
        IN  /\ Len(c) >= L + 2
            /\ c[L + 1].t - c[1].t < windowLen
            /\ ~c[L + 1].ok
            /\ c[L + 2].t - c[1].t >= windowLen
            /\ c[L + 2].ok

-----------------------------------------------------------------------------
(* The probe: C3, C4, C5, C6 (under Spec) *)

InFlight(r) == r.pc \in {"fetching", "reading"}

ProbeStarted(r) == r.pc \in {"fetching", "reading", "backoff"} \/ r.result.kind # "none"

\* C3: a probe makes between 1 and MAX_RETRIES + 1 attempts. When every
\* attempt fails it returns network_error after exactly MAX_RETRIES + 1
\* attempts; when the first MAX_RETRIES attempts fail and the next succeeds
\* it returns the classified result after exactly MAX_RETRIES retries.
C3_RetryCount ==
    \A p \in Procs :
        LET r == inv[p]
        IN  /\ r.attempts <= MAX_RETRIES + 1
            /\ ProbeStarted(r) => r.attempts >= 1
            /\ r.failures = MAX_RETRIES + 1 => r.result.kind = "network_error"
            /\ r.result.kind = "network_error" =>
                   /\ r.attempts = MAX_RETRIES + 1
                   /\ r.failures = r.attempts
                   /\ r.response.code = 502
            /\ r.result.kind = "ok" => r.attempts = r.failures + 1
            /\ (r.result.kind = "ok" /\ r.failures = MAX_RETRIES) =>
                   /\ r.attempts = MAX_RETRIES + 1
                   /\ r.retries = MAX_RETRIES
                   /\ r.result.status = r.respStatus
                   /\ r.result.banned = classify(r.respStatus, r.text)

\* the transport failed MAX_RETRIES >= 1 times and then succeeded
C3_Witness ==
    \E p \in Procs :
        /\ MAX_RETRIES >= 1
        /\ inv[p].result.kind = "ok"
        /\ inv[p].failures = MAX_RETRIES

\* C4 as stated: an attempt that has not completed (response received and
\* body read in full) is under its deadline.
C4_DeadlineCoversAttempt ==
    \A p \in Procs : InFlight(inv[p]) => inv[p].timer

\* C5 as stated: when a proxy was selected for the probe, no attempt is sent
\* without it (a proxy setup error fails the attempt instead).
C5_NoDirectSend ==
    \A p \in Procs :
        (InFlight(inv[p]) /\ inv[p].proxyToUse # NoProxy) => inv[p].agent

\* C6: once the response of an attempt has been delivered (status received
\* and body read in full), no further attempt is made, whatever the status:
\* the probe is over and the answer is the classified result of that attempt.
C6_NoRetryAfterResponse ==
    \A p \in Procs :
        LET r == inv[p]
        IN  r.delivered # 0 =>
                /\ r.pc = "done"
                /\ r.attempts = r.delivered
                /\ r.result.kind = "ok"
                /\ r.response.code = 200
                /\ r.response.statusCode = r.respStatus
                /\ r.response.banned = classify(r.respStatus, r.text)

\* a response with a 5xx status was delivered on an attempt that could
\* still have been retried
C6_Witness ==
    \E p \in Procs :
        /\ inv[p].delivered # 0
        /\ inv[p].respStatus >= 500
        /\ inv[p].retries < MAX_RETRIES

-----------------------------------------------------------------------------
(* The handler's stages: C10 (under Spec) *)

\* the record of ip in m is within its window and has used its whole quota
Exhausted(m, ip, ms, limit) ==
    /\ ip \in DOMAIN m
    /\ nowUnix(ms) - m[ip].windowStart < windowLen
    /\ m[ip].count >= limit

\* from m to m2 one unit of the quota of ip was taken at time ms
QuotaTaken(m, m2, ip, ms) ==
    /\ ip \in DOMAIN m2
    /\ m2[ip].count =
           IF ip \in DOMAIN m /\ nowUnix(ms) - m[ip].windowStart < windowLen
           THEN m[ip].count + 1 ELSE 1

\* C10: the stages run in the order gate, number, proxy and probe, answer.
\* A POST of a caller whose window is exhausted is answered 429 with its
\* number not examined and the map untouched; any other POST takes one unit
\* of the caller's quota, which no later step gives back, also when the
\* answer is 400 or 502.
C10_StageOrder ==
    /\ [][\A p \in Procs :
            (inv[p].pc = "idle" /\ inv'[p].pc # "idle" /\ inv'[p].method = "POST") =>
                IF Exhausted(rateMap, inv'[p].ip, clock, DEFAULT_RATE_LIMIT)
                THEN /\ inv'[p].response.code = 429
                     /\ ~inv'[p].examined
                     /\ inv'[p].attempts = 0
                     /\ rateMap' = rateMap
                ELSE /\ inv'[p].response.code # 429
                     /\ inv'[p].gate = "allowed"
                     /\ QuotaTaken(rateMap, rateMap', inv'[p].ip, clock)]_vars
    /\ [][rateMap' # rateMap =>
            \E p \in Procs : inv[p].pc = "idle" /\ inv'[p].gate = "allowed"]_vars
    /\ [](\A p \in Procs :
            LET r == inv[p]
            IN  /\ r.examined => r.gate = "allowed"
                /\ r.normalized.ok => r.examined
                /\ r.attempts > 0 => r.normalized.ok
                /\ r.result.kind # "none" => r.attempts > 0
                /\ r.response.code \in {400, 502, 200} => r.gate = "allowed")

\* a POST with a malformed number, from a caller whose window is exhausted,
\* was answered 429
C10_Witness ==
    \E p \in Procs :
        /\ inv[p].response.code = 429
        /\ inv[p].shape = "object"
        /\ inv[p].body.number = NumWord
        /\ rateMap[inv[p].ip].count = DEFAULT_RATE_LIMIT


-----------------------------------------------------------------------------
(* normalizeNumber: C7, C8 (under NormSpec) *)

\* the pattern ^\+?\d{6,15}$ on a whole string
MatchesE164(str) ==
    LET digits == IF str # <<>> /\ str[1] = "+" THEN Tail(str) ELSE str
    IN  IsDigits(digits) /\ Len(digits) >= 6 /\ Len(digits) <= 15

\* the digit sequence of str with the leading zeros of its country-code
\* prefix (2 digits when there are 8 or more, else 1) removed; a prefix of
\* zeros only is replaced by the single first digit, the fallback the
\* normalizer documents
ZeroStripped(str) ==
    LET digits   == IF str # <<>> /\ str[1] = "+" THEN Tail(str) ELSE str
        k        == IF Len(digits) >= 8 THEN 2 ELSE 1
        stripped == StripLeadingZeros(SubSeq(digits, 1, k))
    IN  (IF stripped = <<>> THEN SubSeq(digits, 1, 1) ELSE stripped)
            \o SubSeq(digits, k + 1, Len(digits))

\* C7 as stated: for an input matching ^\+?\d{6,15}$ the result is not null,
\* both parts are non-empty digit strings, and country code followed by
\* subscriber number is the digit sequence with the leading zeros of the
\* extracted prefix removed.
C7_Reconstructs ==
    (nResult.done /\ MatchesE164(nInput)) =>
        /\ nResult.value.ok
        /\ nResult.value.cc # <<>> /\ IsDigits(nResult.value.cc)
        /\ nResult.value.in # <<>> /\ IsDigits(nResult.value.in)
        /\ nResult.value.cc \o nResult.value.in = ZeroStripped(nInput)

\* C8 as stated: an input that does not match ^\+?\d{6,15}$ gives null.
C8_NonMatchingIsNull ==
    (nResult.done /\ ~MatchesE164(nInput)) => nResult.value = Null

\* C8 amended: an input that, with the white space at its ends trimmed, does
\* not match ^\+?\d{6,15}$ gives null.
C8_TrimmedNonMatchingIsNull ==
    (nResult.done /\ ~MatchesE164(Trim(nInput))) => nResult.value = Null

\* normalizeNumber returned for an input of more than 15 digits
C8_Witness ==
    /\ nResult.done
    /\ nInput # <<>> /\ IsDigits(nInput) /\ Len(nInput) > 15
    /\ ~MatchesE164(Trim(nInput))

-----------------------------------------------------------------------------
(* The classification: C9 (under ClassifySpec) *)

ContainsAny(low, pats) == \E w \in pats : Contains(low, w)

BanWords == {PatBanned, PatBlocked, PatSuspended, PatAccountBanned, PatForbidden}

AuthWords == {PatUnauthorized, PatAuthFailure, PatAuthFailed}

\* C9: the classification is the ordered rules on the lower-cased body:
\* (1) a ban keyword gives Banned; (2) otherwise a success marker gives
\* NotBanned; (3) otherwise a status in 400..499 with unauthorized,
\* auth_failure or auth_failed gives Banned; (4) otherwise NotBanned.
C9_OrderedRules ==
    cResult.done =>
        LET low == toLowerCase(cBody)
        IN  cResult.banned =
                IF ContainsAny(low, BanWords) THEN TRUE
                ELSE IF SuccessMarker(low) THEN FALSE
                ELSE IF cStatus >= 400 /\ cStatus <= 499 /\ ContainsAny(low, AuthWords)
                THEN TRUE
                ELSE FALSE

\* a 4xx response whose body holds a success marker and an auth keyword, and
\* no ban keyword, was classified not banned
C9_Witness ==
    /\ cResult.done
    /\ cStatus >= 400 /\ cStatus <= 499
    /\ ContainsAny(toLowerCase(cBody), AuthWords)
    /\ SuccessMarker(toLowerCase(cBody))
    /\ ~ContainsAny(toLowerCase(cBody), BanWords)
    /\ ~cResult.banned

-----------------------------------------------------------------------------
(* The answers of the handlers: C11 (under Spec) *)

ListedCodes == {405, 429, 400, 502, 200}

\* C11 as stated: every invocation of a handler ends with one response, of
\* code 405, 429, 400, 502 or 200, and none ends in an uncaught error.
C11_OneListedResponse ==
    /\ \A p \in Procs :
           inv[p].pc = "done" =>
               ~inv[p].thrown /\ inv[p].response.code \in ListedCodes
    /\ simple.pc = "done" =>
           ~simple.thrown /\ simple.response.code \in ListedCodes

-----------------------------------------------------------------------------
(* Overlapping invocations: C12 (under ConcSpec) *)

\* the invocations the gate let through for key k in the window begun at w
AdmittedIn(k, w) ==
    {j \in 1..Len(calls[k]) : calls[k][j].ok /\ calls[k][j].windowStart = w}

\* invocation p is suspended at an await
Suspended(p) == inv[p].pc \in {"parsing", "fetching", "reading", "backoff"}

\* C12: whatever the interleaving of invocations at their await points, no
\* increment of the limiter is lost (the count stored for a key is the number
\* of invocations let through in its current window) and no window lets
\* through more invocations than the limit.
C12_NoLostIncrement ==
    \A k \in IPs :
        /\ k \in DOMAIN rateMap =>
               rateMap[k].count = Cardinality(AdmittedIn(k, rateMap[k].windowStart))
        /\ \A j \in 1..Len(calls[k]) :
               Cardinality(AdmittedIn(k, calls[k][j].windowStart)) <= DEFAULT_RATE_LIMIT

\* two invocations of one caller, let through in the same window, are both
\* suspended at different await points
C12_Witness ==
    /\ \A p \in Procs : Suspended(p) /\ inv[p].ip = "10.0.0.1"
    /\ "10.0.0.1" \in DOMAIN rateMap
    /\ rateMap["10.0.0.1"].count = 2
    /\ DEFAULT_RATE_LIMIT = 2
    /\ inv["p1"].pc = "backoff" /\ inv["p2"].pc = "parsing"

-----------------------------------------------------------------------------
(* Failures of attempts and the handler's answer: C13 (under Spec) *)

\* the answer the handler builds from the attempt that succeeded
ClassifiedAnswer(r) ==
    [code |-> 200, error |-> "", number |-> r.number, normalized |-> r.normalized,
     banned |-> classify(r.respStatus, r.text), statusCode |-> r.respStatus,
     raw |-> IF EXPOSE_RAW = "1" THEN r.text ELSE Undefined,
     proxy |-> IF r.proxyToUse # NoProxy THEN "used" ELSE "none"]

\* C13: the answer is 502 exactly when all MAX_RETRIES + 1 attempts of the
\* probe failed; when an attempt succeeds after failed ones the answer is the
\* 200 classified result of that attempt, the same as without the failures.
C13_OnlyExhaustionSurfaces ==
    \A p \in Procs :
        inv[p].pc = "done" /\ ~inv[p].thrown =>
            /\ inv[p].response.code = 502 <=>
                   /\ inv[p].attempts = MAX_RETRIES + 1
                   /\ inv[p].failures = MAX_RETRIES + 1
            /\ inv[p].response.code = 502 =>
                   inv[p].response = errorResponse(502, "proxy_or_network_failed")
            /\ inv[p].delivered > 0 =>
                   inv[p].response = ClassifiedAnswer(inv[p])

\* the last attempt allowed succeeded after every attempt before it failed
C13_Witness ==
    \E p \in Procs :
        /\ inv[p].pc = "done"
        /\ MAX_RETRIES >= 1
        /\ inv[p].failures = MAX_RETRIES
        /\ inv[p].delivered = MAX_RETRIES + 1
        /\ inv[p].response.code = 200

-----------------------------------------------------------------------------
(* The raw body in the answer: C14 (under ConcSpec) *)

\* invocations p and q answered 200 and differ at most in the body text the
\* upstream sent: same request, same proxy choice, same status, same verdict
SameButText(p, q) ==
    /\ inv[p].pc = "done" /\ inv[q].pc = "done"
    /\ inv[p].response.code = 200 /\ inv[q].response.code = 200
    /\ inv[p].number = inv[q].number
    /\ inv[p].proxyToUse = inv[q].proxyToUse
    /\ inv[p].respStatus = inv[q].respStatus
    /\ inv[p].result.banned = inv[q].result.banned

\* C14: the raw upstream body is in the answer only when EXPOSE_RAW is "1";
\* with any other value two runs that differ only in the body text, with the
\* same classification and status code, give the same 200 answer, without raw.
C14_RawOnlyWhenEnabled ==
    /\ \A p \in Procs :
           inv[p].pc = "done" /\ inv[p].response.raw # Undefined => EXPOSE_RAW = "1"
    /\ EXPOSE_RAW # "1" =>
           \A p, q \in Procs :
               SameButText(p, q) => inv[p].response = inv[q].response

\* two runs answered 200 on different body texts, the flag set but not to "1"
C14_Witness ==
    /\ EXPOSE_RAW = "true"
    /\ SameButText("p1", "p2")
    /\ inv["p1"].text # inv["p2"].text

-----------------------------------------------------------------------------
(* What a retry keeps and what it draws again: C15 (under Spec) *)

\* C15: every attempt, retries included, starts by drawing an identity (user
\* agent, mcc, mnc, r); from the first attempt on, no step of the invocation
\* changes the proxy chosen, the number or the normalized number.
C15_ProxyFixedIdentityRedrawn ==
    [][\A p \in Procs :
          LET a == inv[p]
              b == inv'[p]
          IN  /\ b.attempts = a.attempts + 1 =>
                     /\ b.draws = a.draws + 1
                     /\ b.identity \in AllIdentities
                     /\ b.retries = a.attempts
              /\ a.attempts > 0 /\ b.pc # "idle" =>
                     /\ b.proxyToUse = a.proxyToUse
                     /\ b.normalized = a.normalized
                     /\ b.number = a.number
                     /\ b.attempts \in {a.attempts, a.attempts + 1}]_vars

\* the second retry runs through the proxy chosen for the first attempt, with
\* a third identity drawn
C15_Witness ==
    \E p \in Procs :
        /\ inv[p].pc = "fetching"
        /\ inv[p].retries = 2
        /\ inv[p].draws = 3
        /\ inv[p].proxyToUse = GoodProxy
        /\ inv[p].identity \in Identities

-----------------------------------------------------------------------------
(* When the record is reset: C16 (under RateSpec) *)

\* this step is a call of allowedByRateLimit(k)
CallOf(k) == Len(calls'[k]) = Len(calls[k]) + 1

\* the time of the call of this step, and what it returned
CallTime(k) == calls'[k][Len(calls'[k])].t
CallAllowed(k) == calls'[k][Len(calls'[k])].ok

\* the call of this step replaced k's record by {count: 1, windowStart: now}
ResetBy(k) ==
    /\ k \in DOMAIN rateMap
    /\ rateMap'[k] = [count |-> 1, windowStart |-> CallTime(k)]
    /\ rateMap'[k] # rateMap[k]

\* C16 as stated: a call resets the caller's record exactly when the current
\* time exceeds windowStart + 60; at a time not exceeding windowStart + 60 the
\* record is not reset and the call is allowed only if count < limit.
C16_ResetWhenExceeded ==
    [][\A k \in IPs :
          CallOf(k) /\ k \in DOMAIN rateMap =>
              /\ ResetBy(k) <=> CallTime(k) > rateMap[k].windowStart + windowLen
              /\ CallTime(k) <= rateMap[k].windowStart + windowLen =>
                     /\ ~ResetBy(k)
                     /\ CallAllowed(k) <=> rateMap[k].count < DEFAULT_RATE_LIMIT]_vars

\* C16, amended: a call resets the caller's record exactly when the current
\* time has reached windowStart + 60 (now - windowStart >= 60), and such a call
\* is allowed; at an earlier time the record is not reset and the call is
\* allowed only if count < limit.
C16_ResetWhenReached ==
    [][\A k \in IPs :
          CallOf(k) /\ k \in DOMAIN rateMap =>
              /\ ResetBy(k) <=> CallTime(k) >= rateMap[k].windowStart + windowLen
              /\ ResetBy(k) => CallAllowed(k)
              /\ CallTime(k) < rateMap[k].windowStart + windowLen =>
                     /\ ~ResetBy(k)
                     /\ rateMap'[k].windowStart = rateMap[k].windowStart
                     /\ CallAllowed(k) <=> rateMap[k].count < DEFAULT_RATE_LIMIT]_vars

\* a caller whose quota was used up called at exactly windowStart + 60 and
\* the record was reset
C16_Witness ==
    \E k \in IPs : \E j \in 2..Len(calls[k]) :
        /\ ~calls[k][j - 1].ok
        /\ calls[k][j].t = calls[k][j - 1].windowStart + windowLen
        /\ calls[k][j].ok
        /\ calls[k][j].windowStart = calls[k][j].t
        /\ rateMap[k] = [count |-> 1, windowStart |-> calls[k][j].t]

-----------------------------------------------------------------------------
(* The backoff waits of a probe: C17 (under Spec) *)

\* C17: within one probe exactly one backoff wait lies between two
\* consecutive attempts (the waits begun are one fewer than the attempts begun,
\* and as many while a wait is pending), each wait is a whole number of
\* milliseconds in [500, 1200), and no wait follows the last attempt, be it a
\* success or the failure that exhausts the retries.
C17_BackoffBetweenAttempts ==
    \A p \in Procs :
        LET r == inv[p]
        IN  /\ r.pc = "backoff" =>
                   /\ r.backoffMs \in BACKOFF_BASE..(BACKOFF_BASE + BACKOFF_JITTER - 1)
                   /\ r.backoffs = r.attempts
                   /\ r.attempts <= MAX_RETRIES
            /\ r.pc # "backoff" =>
                   /\ r.backoffMs = 0
                   /\ r.attempts > 0 => r.backoffs = r.attempts - 1
                   /\ r.attempts = 0 => r.backoffs = 0

\* the longest wait is pending before the last attempt allowed
C17_Witness ==
    \E p \in Procs :
        /\ inv[p].pc = "backoff"
        /\ inv[p].backoffMs = BACKOFF_BASE + BACKOFF_JITTER - 1
        /\ inv[p].backoffs = MAX_RETRIES
        /\ MAX_RETRIES = 2

-----------------------------------------------------------------------------
(* Outbound requests and the checks before them: C18 (under SimpleSpec) *)

RejectionCodes == {405, 429, 400}

\* the handler of src/unnamed/part_000: nothing is sent for a rejected
\* invocation, what is sent is sent after the three checks, and a 405 leaves
\* the limiter alone
GuardedProbe ==
    \A p \in Procs :
        LET r == inv[p]
        IN  /\ r.response.code \in RejectionCodes => r.attempts = 0
            /\ r.attempts > 0 =>
                   /\ r.method = "POST"
                   /\ r.gate = "allowed"
                   /\ r.normalized.ok
                   /\ r.normalized = normalizeNumber(r.number)
            /\ r.response.code = 405 => r.gate = "none"

\* the handler of src/api/check-ban.js: the same, the gate having left a
\* record in the map and the number being one normalizeNumber accepts
GuardedSimpleProbe ==
    /\ simple.response.code \in RejectionCodes => simple.sent = 0
    /\ simple.sent > 0 =>
           /\ simple.method = "POST"
           /\ DOMAIN rateMap # {}
           /\ normalizeNumber(Trim(simple.number)).ok

\* C18 as stated: no outbound request is sent for an invocation rejected with
\* 405, 429 or 400; a request is sent only after the method check, the
\* rate-limit gate and the number validation have passed; a 405 does not touch
\* the rate-limit state.
C18_NoSendBeforeChecks == GuardedProbe /\ GuardedSimpleProbe

-----------------------------------------------------------------------------
(* What a call of the limiter changes: C19 (under RateSpec) *)

\* C19: a call allowedByRateLimit(k) that returns false leaves the whole map
\* unchanged; one that returns true changes the record of k only, creating it,
\* resetting it or adding exactly 1 to its count; no record of another key is
\* ever modified or removed.
C19_LimiterFrame ==
    [][\A k \in IPs :
          /\ \A x \in DOMAIN rateMap : x \in DOMAIN rateMap'
          /\ CallOf(k) =>
                 /\ \A x \in DOMAIN rateMap \ {k} : rateMap'[x] = rateMap[x]
                 /\ DOMAIN rateMap' = DOMAIN rateMap \cup {k}
                 /\ ~CallAllowed(k) => rateMap' = rateMap
                 /\ CallAllowed(k) =>
                        \/ rateMap'[k] = [count |-> 1, windowStart |-> CallTime(k)]
                        \/ /\ k \in DOMAIN rateMap
                           /\ rateMap'[k] = [rateMap[k] EXCEPT !.count = @ + 1]]_vars

\* both callers have a record, one of them was just refused and the other
\* has had a call counted on top of its first
C19_Witness ==
    \E k, x \in IPs :
        /\ k # x
        /\ DOMAIN rateMap = IPs
        /\ Len(calls[k]) > 0 /\ ~calls[k][Len(calls[k])].ok
        /\ rateMap[x].count = 2
        /\ rateMap[x].windowStart # rateMap[k].windowStart

-----------------------------------------------------------------------------
(* The records of the limiter: C20 (under RateSpec) *)

\* the calls of key k allowed at time from or later
AllowedSince(k, from) ==
    {j \in 1..Len(calls[k]) : calls[k][j].ok /\ calls[k][j].t >= from}

\* C20: with a limit L >= 1 and a clock that never goes back, every record of
\* the map has 1 <= count <= L and windowStart <= the current time, and its
\* count is the number of calls allowed for its key since windowStart was set.
C20_RecordInvariant ==
    \A k \in DOMAIN rateMap :
        /\ 1 <= rateMap[k].count
        /\ rateMap[k].count <= DEFAULT_RATE_LIMIT
        /\ rateMap[k].windowStart <= nowUnix(clock)
        /\ rateMap[k].count = Cardinality(AllowedSince(k, rateMap[k].windowStart))

\* the record of a second window is full and a call was refused in that
\* window, after calls allowed in the first
C20_Witness ==
    \E k \in DOMAIN rateMap :
        /\ rateMap[k].count = DEFAULT_RATE_LIMIT
        /\ DEFAULT_RATE_LIMIT = 2
        /\ rateMap[k].windowStart > 0
        /\ rateMap[k].windowStart < nowUnix(clock)
        /\ \E i, j \in 1..Len(calls[k]) :
               /\ calls[k][i].ok /\ calls[k][i].t < rateMap[k].windowStart
               /\ ~calls[k][j].ok /\ calls[k][j].t >= rateMap[k].windowStart

====
